---- MODULE Spec2Model ----
(***************************************************************************)
(* A model of package conf (src/conf.go): Open drives a character-level    *)
(* state machine over a file and builds a section -> key -> value map;     *)
(* Read looks one entry up.                                                *)
(*                                                                         *)
(* A Go string is modelled as a sequence of one-character strings; the     *)
(* one-character result of get/add/look is a string, "" at end of stream.  *)
(* A fixed message prefix is one element at the head of the error text.    *)
(***************************************************************************)
EXTENDS Integers, Sequences, FiniteSets, TLC

VARIABLES
    file,       \* the bytes of the file named by filename
    ioErr,      \* TRUE: the read past the last byte fails with an I/O error,
                \* FALSE: it reports end of file
    fileOpen,   \* the descriptor obtained by os.Open is held open
    pc,         \* "open": before os.Open, "loop": in Open's for loop,
                \* "returned": Open has returned
    state,      \* Open's local variable state
    lex,        \* the lexer struct: file offset and the string fields
    conf,       \* Open's first result
    err,        \* Open's second result
    lastRead,   \* arguments and results of the latest Read on conf
    eqAt,       \* history: <<section, key>> -> offset of the "=" that
                \* completed the key
    tokenAt     \* history: offset at which the section or key name being
                \* read began

vars == <<file, ioErr, fileOpen, pc, state, lex, conf, err, lastRead, eqAt, tokenAt>>

----------------------------------------------------------------------------
(* Bounds of the checked inputs *)

\* every byte string up to this length is an input
MaxLen == 5
\* longer inputs are made of up to this many whole lines
MaxLines == 3
\* the inputs of the specification with fairness: every byte string up to
\* this length
LiveLen == 3
\* the buffer is tracked up to Len(file) + BufSlack characters
BufSlack == 2

Chars == {"[", "]", "=", "\n", "\r", "#", " ", "a"}

ShortInputs == UNION {[1..n -> Chars] : n \in 0..MaxLen}

LineSet ==
    { <<"\n">>,
      <<"#", "c", "\n">>,
      <<"[", "]", "\n">>,
      <<"[", "a", "]", "\n">>,
      <<"a", "=", "\n">>,
      <<"a", "=", "b", "\n">>,
      <<"[", "a", "]", "a", "=", "\n">>,
      <<"a", "=", "b", "\r", "\n">>,
      <<"a", "=", "\r", "\r", "\n">> }

\* the last line of a file may lack its newline
TailSet == { <<>>, <<"a", "=", "b">> }

RECURSIVE Flatten(_)
Flatten(ls) == IF ls = <<>> THEN <<>> ELSE Head(ls) \o Flatten(Tail(ls))

LineInputs ==
    { Flatten(ls) \o t : ls \in UNION {[1..n -> LineSet] : n \in 1..MaxLines},
                         t \in TailSet }

Inputs == ShortInputs \cup LineInputs

----------------------------------------------------------------------------
(* The state constants *)

stateStart == 0
stateMid == 1
stateComment == 2
stateSection == 3
stateKey == 4
stateValue == 5
stateError == 6
stateEOF == 7

----------------------------------------------------------------------------
(* Maps *)

EmptyMap == [x \in {} |-> <<>>]

Put(m, k, v) == [x \in (DOMAIN m) \cup {k} |-> IF x = k THEN v ELSE m[x]]

\* the string a one-character result adds to a string
Str(chr) == IF chr = "" THEN <<>> ELSE <<chr>>

----------------------------------------------------------------------------
(* The lexer *)

NewLexer ==
    [pos |-> 0, bufferSection |-> <<>>, bufferKey |-> <<>>,
     bufferValue |-> <<>>, bufferError |-> <<>>, buffer |-> <<>>,
     data |-> EmptyMap]

\* io.ReadFull of one byte at offset p: the byte, or "" on EOF or I/O error
ReadFull(f, p) == IF p < Len(f) THEN f[p + 1] ELSE ""

\* file.Seek(-1, 1): a seek before offset 0 fails and leaves the offset
Seek(p) == IF p >= 1 THEN p - 1 ELSE p

RECURSIVE get(_, _), look(_, _)

get(f, p) ==
    LET c == ReadFull(f, p) IN
    IF c = "" THEN [chr |-> "", pos |-> p]
    ELSE IF c = "\r"
         THEN LET k == look(f, p + 1) IN
              IF k.chr = "\n" THEN get(f, k.pos)
              ELSE [chr |-> c, pos |-> k.pos]
         ELSE [chr |-> c, pos |-> p + 1]

look(f, p) ==
    LET g == get(f, p) IN [chr |-> g.chr, pos |-> Seek(g.pos)]

\* the longest buffer that is told apart from a longer one
BufCap(f) == Len(f) + BufSlack

add(f, l) ==
    LET g == get(f, l.pos) IN
    [chr |-> g.chr,
     lex |-> [l EXCEPT !.pos = g.pos,
                       !.buffer = IF Len(@) < BufCap(f) THEN @ \o Str(g.chr)
                                  ELSE @]]

flush(l) == [save |-> l.buffer, lex |-> [l EXCEPT !.buffer = <<>>]]

\* lex.look() as a statement of a handler: only the offset changes
Looked(f, l) == [l EXCEPT !.pos = look(f, l.pos).pos]

doStart(f, l) ==
    LET a == add(f, l) IN
    CASE a.chr = "" -> [state |-> stateEOF, lex |-> a.lex]
      [] a.chr \in {" ", "\t", "\n"} -> [state |-> stateStart, lex |-> a.lex]
      [] a.chr = "[" -> [state |-> stateSection, lex |-> flush(a.lex).lex]
      [] a.chr \in {"#", ";"} -> [state |-> stateComment, lex |-> a.lex]
      [] OTHER ->
           [state |-> stateError,
            lex |-> [a.lex EXCEPT
                       !.bufferError = <<"key not in section: ">> \o a.lex.buffer]]

doMid(f, l) ==
    LET chr == look(f, l.pos).chr
        l1 == Looked(f, l)
    IN
    CASE chr = "" -> [state |-> stateEOF, lex |-> l1]
      [] chr \in {" ", "\t", "\n"} -> [state |-> stateMid, lex |-> add(f, l1).lex]
      [] chr = "[" -> [state |-> stateSection, lex |-> flush(add(f, l1).lex).lex]
      [] chr \in {"#", ";"} -> [state |-> stateComment, lex |-> add(f, l1).lex]
      [] OTHER -> [state |-> stateKey, lex |-> flush(l1).lex]

\* doComment as it would be if it always went on in stateMid
doCommentAlwaysMid(f, l) ==
    LET a == add(f, l) IN
    CASE a.chr = "" -> [state |-> stateEOF, lex |-> a.lex]
      [] a.chr = "\n" -> [state |-> stateMid, lex |-> a.lex]
      [] OTHER -> [state |-> stateComment, lex |-> a.lex]

doComment(f, l) ==
    LET a == add(f, l) IN
    CASE a.chr = "" -> [state |-> stateEOF, lex |-> a.lex]
      [] a.chr = "\n" ->
           IF a.lex.bufferSection = <<>>
           THEN [state |-> stateStart, lex |-> a.lex]
           ELSE [state |-> stateMid, lex |-> a.lex]
      [] OTHER -> [state |-> stateComment, lex |-> a.lex]

\* doSection as it would be if it made the whole map anew for a section
doSectionResets(f, l) ==
    LET chr == look(f, l.pos).chr
        l1 == Looked(f, l)
    IN
    CASE chr \in {"\n", ""} ->
           LET l2 == add(f, l1).lex IN
           [state |-> stateError,
            lex |-> [l2 EXCEPT
                       !.bufferError = <<"broken section name: ">> \o l2.buffer]]
      [] chr = "]" ->
           LET fl == flush(l1)
               l2 == [fl.lex EXCEPT !.bufferSection = fl.save]
           IN
           IF l2.bufferSection \in DOMAIN l2.data
           THEN [state |-> stateError,
                 lex |-> [l2 EXCEPT
                            !.bufferError =
                                <<"duplicate section: ">> \o l2.bufferSection]]
           ELSE LET l3 == [l2 EXCEPT
                             !.data = Put(EmptyMap, l2.bufferSection, EmptyMap)]
                IN [state |-> stateMid, lex |-> add(f, l3).lex]
      [] OTHER -> [state |-> stateSection, lex |-> add(f, l1).lex]

\* doSection as it would be without the check for an existing section
doSectionOverwrites(f, l) ==
    LET chr == look(f, l.pos).chr
        l1 == Looked(f, l)
    IN
    CASE chr \in {"\n", ""} ->
           LET l2 == add(f, l1).lex IN
           [state |-> stateError,
            lex |-> [l2 EXCEPT
                       !.bufferError = <<"broken section name: ">> \o l2.buffer]]
      [] chr = "]" ->
           LET fl == flush(l1)
               l2 == [fl.lex EXCEPT !.bufferSection = fl.save]
               l3 == [l2 EXCEPT
                        !.data = Put(l2.data, l2.bufferSection, EmptyMap)]
           IN [state |-> stateMid, lex |-> add(f, l3).lex]
      [] OTHER -> [state |-> stateSection, lex |-> add(f, l1).lex]

doSection(f, l) ==
    LET chr == look(f, l.pos).chr
        l1 == Looked(f, l)
    IN
    CASE chr \in {"\n", ""} ->
           LET l2 == add(f, l1).lex IN
           [state |-> stateError,
            lex |-> [l2 EXCEPT
                       !.bufferError = <<"broken section name: ">> \o l2.buffer]]
      [] chr = "]" ->
           LET fl == flush(l1)
               l2 == [fl.lex EXCEPT !.bufferSection = fl.save]
           IN
           IF l2.bufferSection \in DOMAIN l2.data
           THEN [state |-> stateError,
                 lex |-> [l2 EXCEPT
                            !.bufferError =
                                <<"duplicate section: ">> \o l2.bufferSection]]
           ELSE LET l3 == [l2 EXCEPT
                             !.data = Put(l2.data, l2.bufferSection, EmptyMap)]
                IN [state |-> stateMid, lex |-> add(f, l3).lex]
      [] OTHER -> [state |-> stateSection, lex |-> add(f, l1).lex]

\* lex.data[section][key] read with the ", ok" form: a missing section is a
\* nil map, in which no key exists
HasKey(d, section, key) ==
    /\ section \in DOMAIN d
    /\ key \in DOMAIN d[section]

\* doKey as it would be if it consumed the "=" before taking the key name
doKeyAddsFirst(f, l) ==
    LET chr == look(f, l.pos).chr
        l1 == Looked(f, l)
    IN
    CASE chr \in {"\n", ""} ->
           LET l2 == add(f, l1).lex IN
           [state |-> stateError,
            lex |-> [l2 EXCEPT
                       !.bufferError = <<"broken key name: ">> \o l2.buffer]]
      [] chr = "=" ->
           LET fl == flush(add(f, l1).lex)
               l2 == [fl.lex EXCEPT !.bufferKey = fl.save]
           IN
           IF HasKey(l2.data, l2.bufferSection, l2.bufferKey)
           THEN [state |-> stateError,
                 lex |-> [l2 EXCEPT
                            !.bufferError =
                                <<"duplicate key in section: ">> \o l2.bufferKey]]
           ELSE [state |-> stateValue, lex |-> l2]
      [] OTHER -> [state |-> stateKey, lex |-> add(f, l1).lex]

\* doKey as it would be if it looked for the key in every section
doKeyGlobalCheck(f, l) ==
    LET chr == look(f, l.pos).chr
        l1 == Looked(f, l)
    IN
    CASE chr \in {"\n", ""} ->
           LET l2 == add(f, l1).lex IN
           [state |-> stateError,
            lex |-> [l2 EXCEPT
                       !.bufferError = <<"broken key name: ">> \o l2.buffer]]
      [] chr = "=" ->
           LET fl == flush(l1)
               l2 == [fl.lex EXCEPT !.bufferKey = fl.save]
           IN
           IF \E sec \in DOMAIN l2.data : HasKey(l2.data, sec, l2.bufferKey)
           THEN [state |-> stateError,
                 lex |-> [l2 EXCEPT
                            !.bufferError =
                                <<"duplicate key in section: ">> \o l2.bufferKey]]
           ELSE [state |-> stateValue, lex |-> flush(add(f, l2).lex).lex]
      [] OTHER -> [state |-> stateKey, lex |-> add(f, l1).lex]

\* doKey as it would be without the check for an existing key
doKeyOverwrites(f, l) ==
    LET chr == look(f, l.pos).chr
        l1 == Looked(f, l)
    IN
    CASE chr \in {"\n", ""} ->
           LET l2 == add(f, l1).lex IN
           [state |-> stateError,
            lex |-> [l2 EXCEPT
                       !.bufferError = <<"broken key name: ">> \o l2.buffer]]
      [] chr = "=" ->
           LET fl == flush(l1)
               l2 == [fl.lex EXCEPT !.bufferKey = fl.save]
           IN [state |-> stateValue, lex |-> flush(add(f, l2).lex).lex]
      [] OTHER -> [state |-> stateKey, lex |-> add(f, l1).lex]

doKey(f, l) ==
    LET chr == look(f, l.pos).chr
        l1 == Looked(f, l)
    IN
    CASE chr \in {"\n", ""} ->
           LET l2 == add(f, l1).lex IN
           [state |-> stateError,
            lex |-> [l2 EXCEPT
                       !.bufferError = <<"broken key name: ">> \o l2.buffer]]
      [] chr = "=" ->
           LET fl == flush(l1)
               l2 == [fl.lex EXCEPT !.bufferKey = fl.save]
           IN
           IF HasKey(l2.data, l2.bufferSection, l2.bufferKey)
           THEN [state |-> stateError,
                 lex |-> [l2 EXCEPT
                            !.bufferError =
                                <<"duplicate key in section: ">> \o l2.bufferKey]]
           ELSE [state |-> stateValue, lex |-> flush(add(f, l2).lex).lex]
      [] OTHER -> [state |-> stateKey, lex |-> add(f, l1).lex]

doValue(f, l) ==
    LET chr == look(f, l.pos).chr
        l1 == Looked(f, l)
    IN
    CASE chr \in {"\n", ""} ->
           LET fl == flush(l1)
               l2 == [fl.lex EXCEPT !.bufferValue = fl.save]
               l3 == add(f, l2).lex
           IN
           [state |-> stateMid,
            lex |-> [l3 EXCEPT
                       !.data[l3.bufferSection] =
                           Put(@, l3.bufferKey, l3.bufferValue)]]
      [] OTHER -> [state |-> stateValue, lex |-> add(f, l1).lex]

doError(l) == [nil |-> FALSE, text |-> l.bufferError]

----------------------------------------------------------------------------
(* Open's loop as a function of the file: the result of a whole parse *)

Dispatch(f, l, s) ==
    CASE s = stateStart -> doStart(f, l)
      [] s = stateMid -> doMid(f, l)
      [] s = stateComment -> doComment(f, l)
      [] s = stateSection -> doSection(f, l)
      [] s = stateKey -> doKey(f, l)
      [] s = stateValue -> doValue(f, l)

\* no parse that ends takes more than this many turns of the loop
Fuel(f) == 2 * Len(f) + 4

RECURSIVE Loop(_, _, _, _)
Loop(f, l, s, n) ==
    IF s = stateError
    THEN [ends |-> TRUE, conf |-> [nil |-> TRUE, data |-> EmptyMap],
          err |-> [nil |-> FALSE, text |-> l.bufferError]]
    ELSE IF s = stateEOF
    THEN [ends |-> TRUE, conf |-> [nil |-> FALSE, data |-> l.data],
          err |-> [nil |-> TRUE, text |-> <<>>]]
    ELSE IF n = 0
    THEN [ends |-> FALSE, conf |-> [nil |-> TRUE, data |-> EmptyMap],
          err |-> [nil |-> TRUE, text |-> <<>>]]
    ELSE LET r == Dispatch(f, l, s) IN Loop(f, r.lex, r.state, n - 1)

Parse(f) == Loop(f, NewLexer, stateStart, Fuel(f))

----------------------------------------------------------------------------
(* Conf and Read *)

NilConf == [nil |-> TRUE, data |-> EmptyMap]
NilError == [nil |-> TRUE, text |-> <<>>]

\* Read as it would be if an empty value were taken for a missing entry
ReadEmptyIsMissing(c, section, key) ==
    IF ~HasKey(c.data, section, key) \/ c.data[section][key] = <<>>
    THEN [value |-> <<>>,
          err |-> [nil |-> FALSE, text |-> <<"key or section does not exist">>]]
    ELSE [value |-> c.data[section][key], err |-> NilError]

Read(c, section, key) ==
    IF ~HasKey(c.data, section, key)
    THEN [value |-> <<>>,
          err |-> [nil |-> FALSE, text |-> <<"key or section does not exist">>]]
    ELSE [value |-> c.data[section][key], err |-> NilError]

NoRead == [called |-> FALSE, section |-> <<>>, key |-> <<>>,
           value |-> <<>>, err |-> NilError]

----------------------------------------------------------------------------
(* Open, one action per statement group / switch case *)

Init ==
    /\ file \in Inputs
    /\ ioErr \in BOOLEAN
    /\ fileOpen = FALSE
    /\ pc = "open"
    /\ state = stateStart
    /\ lex = NewLexer
    /\ conf = NilConf
    /\ err = NilError
    /\ lastRead = NoRead
    /\ eqAt = EmptyMap
    /\ tokenAt = 0

\* os.Open fails: Open returns nil and the error
OpenFails ==
    /\ pc = "open"
    /\ pc' = "returned"
    /\ conf' = NilConf
    /\ err' = [nil |-> FALSE, text |-> <<"open: no such file or directory">>]
    /\ UNCHANGED <<file, ioErr, fileOpen, state, lex, lastRead, eqAt, tokenAt>>

\* os.Open succeeds: state and lex are initialised
OpenFile ==
    /\ pc = "open"
    /\ pc' = "loop"
    /\ fileOpen' = TRUE
    /\ state' = stateStart
    /\ lex' = NewLexer
    /\ UNCHANGED <<file, ioErr, conf, err, lastRead, eqAt, tokenAt>>

Handle(r) ==
    /\ state' = r.state
    /\ lex' = r.lex
    /\ tokenAt' = IF r.state \in {stateSection, stateKey} /\ r.state # state
                  THEN r.lex.pos ELSE tokenAt
    /\ UNCHANGED <<file, ioErr, fileOpen, pc, conf, err, lastRead>>

CaseStart ==
    /\ pc = "loop" /\ state = stateStart
    /\ Handle(doStart(file, lex))
    /\ UNCHANGED eqAt

CaseMid ==
    /\ pc = "loop" /\ state = stateMid
    /\ Handle(doMid(file, lex))
    /\ UNCHANGED eqAt

CaseComment ==
    /\ pc = "loop" /\ state = stateComment
    /\ Handle(doComment(file, lex))
    /\ UNCHANGED eqAt

CaseSection ==
    /\ pc = "loop" /\ state = stateSection
    /\ Handle(doSection(file, lex))
    /\ UNCHANGED eqAt

CaseKey ==
    /\ pc = "loop" /\ state = stateKey
    /\ Handle(doKey(file, lex))
    /\ eqAt' = IF state' = stateValue
               THEN Put(eqAt, <<lex'.bufferSection, lex'.bufferKey>>,
                        Looked(file, lex).pos)
               ELSE eqAt

CaseValue ==
    /\ pc = "loop" /\ state = stateValue
    /\ Handle(doValue(file, lex))
    /\ UNCHANGED eqAt

\* the error case as it would be if it handed out the map built so far
CaseErrorKeepsData ==
    /\ pc = "loop" /\ state = stateError
    /\ pc' = "returned"
    /\ conf' = [nil |-> FALSE, data |-> lex.data]
    /\ err' = doError(lex)
    /\ UNCHANGED <<file, ioErr, fileOpen, state, lex, lastRead, eqAt, tokenAt>>

CaseError ==
    /\ pc = "loop" /\ state = stateError
    /\ pc' = "returned"
    /\ conf' = NilConf
    /\ err' = doError(lex)
    /\ UNCHANGED <<file, ioErr, fileOpen, state, lex, lastRead, eqAt, tokenAt>>

CaseEOF ==
    /\ pc = "loop" /\ state = stateEOF
    /\ pc' = "returned"
    /\ conf' = [nil |-> FALSE, data |-> lex.data]
    /\ err' = NilError
    /\ UNCHANGED <<file, ioErr, fileOpen, state, lex, lastRead, eqAt, tokenAt>>

\* the names a caller asks for: those of the document and one that is absent
Absent == <<"z">>
SectionArgs == (DOMAIN conf.data) \cup {Absent}
KeyArgs == UNION {DOMAIN conf.data[s] : s \in DOMAIN conf.data} \cup {Absent}

ReadCall ==
    /\ pc = "returned" /\ ~conf.nil
    /\ \E section \in SectionArgs, key \in KeyArgs :
         LET r == Read(conf, section, key) IN
         lastRead' = [called |-> TRUE, section |-> section, key |-> key,
                      value |-> r.value, err |-> r.err]
    /\ UNCHANGED <<file, ioErr, fileOpen, pc, state, lex, conf, err, eqAt, tokenAt>>

Next ==
    \/ OpenFails
    \/ OpenFile
    \/ CaseStart
    \/ CaseMid
    \/ CaseComment
    \/ CaseSection
    \/ CaseKey
    \/ CaseValue
    \/ CaseError
    \/ CaseEOF
    \/ ReadCall

Spec == Init /\ [][Next]_vars

\* Open's loop takes its next turn as long as it has not returned
InitLive == Init /\ Len(file) <= LiveLen
FairSpec == InitLive /\ [][Next]_vars /\ WF_vars(Next)

----------------------------------------------------------------------------
(* Properties *)

StartsWith(text, prefix) == text # <<>> /\ Head(text) = prefix

\* C1: for every finite input file Open terminates: the state machine
\* reaches stateEOF or stateError and Open returns.
C1_OpenTerminates == <>(pc = "returned")

\* C2: when the machine reaches stateError Open returns no Document and a
\* non-nil error; a Document is returned only at stateEOF, without error.
C2_AllOrNothing ==
    /\ (pc = "returned" /\ state = stateError) => (conf = NilConf /\ ~err.nil)
    /\ ~conf.nil => (pc = "returned" /\ state = stateEOF /\ err.nil)

\* an error return after entries had been stored
C2_Witness ==
    /\ pc = "returned" /\ state = stateError /\ conf.nil
    /\ \E s \in DOMAIN lex.data : DOMAIN lex.data[s] # {}

\* C4: Read returns an error exactly when the section or the key is absent,
\* otherwise the stored string and no error; the Document stays as Open
\* returned it.
C4_ReadFoundOrError ==
    lastRead.called =>
      LET present == /\ lastRead.section \in DOMAIN conf.data
                     /\ lastRead.key \in DOMAIN conf.data[lastRead.section]
      IN /\ ~lastRead.err.nil <=> ~present
         /\ present => lastRead.value = conf.data[lastRead.section][lastRead.key]
         /\ conf.data = lex.data

\* an entry whose value is the empty string has been read
C4_Witness ==
    /\ lastRead.called /\ lastRead.err.nil /\ lastRead.value = <<>>
    /\ lastRead.section \in DOMAIN conf.data
    /\ lastRead.key \in DOMAIN conf.data[lastRead.section]

\* the index of the first line feed of f after index i, Len(f) + 1 if none
RECURSIVE NextLF(_, _)
NextLF(f, i) ==
    IF i >= Len(f) THEN Len(f) + 1
    ELSE IF f[i + 1] = "\n" THEN i + 1 ELSE NextLF(f, i + 1)

\* the characters of f from offset p up to the newline that follows (a line
\* feed, or a carriage return immediately followed by one) or the end
ExpectedValue(f, p) ==
    LET n == NextLF(f, p)
        e == IF n <= Len(f) /\ n - 1 > p /\ f[n - 1] = "\r" THEN n - 2 ELSE n - 1
    IN SubSeq(f, p + 1, e)

\* C3: after a successful parse Read(s, k) returns, for every key k of every
\* section s, exactly the characters of the input between the "=" that
\* completed the key and the following newline or end of stream, untrimmed.
C3_ValueIsRestOfLine ==
    (pc = "returned" /\ ~conf.nil) =>
      \A s \in DOMAIN conf.data : \A k \in DOMAIN conf.data[s] :
        /\ Read(conf, s, k).err.nil
        /\ Read(conf, s, k).value = ExpectedValue(file, eqAt[<<s, k>>] + 1)

\* TRUE iff, reading f from index i, only blanks, newlines and full-line
\* comments come before a character that is neither of these nor "["
RECURSIVE KeyBeforeSection(_, _)
KeyBeforeSection(f, i) ==
    IF i > Len(f) THEN FALSE
    ELSE IF f[i] \in {" ", "\t", "\n"} THEN KeyBeforeSection(f, i + 1)
    ELSE IF f[i] = "\r" /\ i < Len(f) /\ f[i + 1] = "\n"
         THEN KeyBeforeSection(f, i + 2)
    ELSE IF f[i] \in {"#", ";"} THEN KeyBeforeSection(f, NextLF(f, i) + 1)
    ELSE f[i] # "["

\* C5: when, after only blanks, newlines and full-line comments, a character
\* other than "[" is met before any section header, Open fails with an error
\* starting with "key not in section" and returns no Document.
C5_KeyNotInSection ==
    (fileOpen /\ KeyBeforeSection(file, 1)) =>
      /\ pc = "loop" => state \in {stateStart, stateComment, stateError}
      /\ pc = "returned" =>
            (conf.nil /\ StartsWith(err.text, "key not in section: "))

\* C6: when a section header is completed whose name is the name of a
\* section read before (the empty name included), Open fails there with
\* "duplicate section: <name>" and returns no Document.
C6_DuplicateSection ==
    /\ [][(/\ pc = "loop" /\ state = stateSection
           /\ look(file, lex.pos).chr = "]"
           /\ lex.buffer \in DOMAIN lex.data)
          => (/\ state' = stateError
              /\ lex'.bufferError = <<"duplicate section: ">> \o lex.buffer
              /\ lex'.data = lex.data)]_vars
    /\ [](pc = "returned" /\ StartsWith(lex.bufferError, "duplicate section: ")
          => conf = NilConf /\ ~err.nil /\ err.text = lex.bufferError)

\* Open has returned the error of a second header of a section that holds a key
C6_Witness ==
    /\ pc = "returned" /\ conf.nil
    /\ StartsWith(err.text, "duplicate section: ")
    /\ Tail(err.text) \in DOMAIN lex.data
    /\ DOMAIN lex.data[Tail(err.text)] # {}

\* C7: when a key is completed by "=" whose name is already a key of the open
\* section, Open fails there with "duplicate key in section: <key>" and
\* returns no Document; no stored value is ever overwritten.
C7_DuplicateKey ==
    /\ [][(/\ pc = "loop" /\ state = stateKey
           /\ look(file, lex.pos).chr = "="
           /\ lex.bufferSection \in DOMAIN lex.data
           /\ lex.buffer \in DOMAIN lex.data[lex.bufferSection])
          => (/\ state' = stateError
              /\ lex'.bufferError = <<"duplicate key in section: ">> \o lex.buffer
              /\ lex'.data = lex.data)]_vars
    /\ [][\A s \in DOMAIN lex.data : \A k \in DOMAIN lex.data[s] :
            /\ s \in DOMAIN lex'.data
            /\ k \in DOMAIN lex'.data[s]
            /\ lex'.data[s][k] = lex.data[s][k]]_vars
    /\ [](pc = "returned" /\ StartsWith(lex.bufferError, "duplicate key in section: ")
          => conf = NilConf /\ ~err.nil /\ err.text = lex.bufferError)

\* Open has returned the error of a second "a=" whose line holds another value
\* than the stored one
C7_Witness ==
    /\ pc = "returned" /\ conf.nil
    /\ StartsWith(err.text, "duplicate key in section: ")
    /\ lex.bufferSection \in DOMAIN lex.data
    /\ Tail(err.text) \in DOMAIN lex.data[lex.bufferSection]
    /\ lex.data[lex.bufferSection][Tail(err.text)] = <<>>
    /\ ExpectedValue(file, lex.pos + 1) # <<>>

\* no c in f between offset p and the line feed that follows or the end
Unclosed(f, p, c) ==
    \A i \in (p + 1)..(NextLF(f, p) - 1) : i <= Len(f) => f[i] # c

\* C8: a section header that meets a newline or the end of the stream before
\* any "]" makes Open fail with "broken section name"; a key that meets a
\* newline or the end of the stream before "=" makes it fail with "broken key
\* name".
C8_BrokenNames ==
    /\ [](pc = "loop" /\ state = stateSection /\ Unclosed(file, lex.pos, "]")
          => <>(/\ pc = "returned" /\ conf.nil
                /\ StartsWith(err.text, "broken section name: ")))
    /\ [](pc = "loop" /\ state = stateKey /\ Unclosed(file, lex.pos, "=")
          => <>(/\ pc = "returned" /\ conf.nil
                /\ StartsWith(err.text, "broken key name: ")))

\* whitespace-only lines and full-line comments
InsertedLines ==
    { <<"\n">>, <<" ", "\n">>, <<"\t", "\n">>, <<"#", "c", "\n">>, <<";", "\n">> }

\* the line of f that starts at offset i, and the one that ends with the
\* line feed at index i, both without their line feed
LineFrom(f, i) == SubSeq(f, i + 1, NextLF(f, i) - 1)
LineUpTo(f, i) ==
    LET lfs == {j \in 1..(i - 1) : f[j] = "\n"}
        from == IF lfs = {} THEN 0 ELSE CHOOSE j \in lfs : \A k \in lfs : k <= j
    IN SubSeq(f, from + 1, i - 1)

IsHeaderLine(ln) ==
    /\ ln # <<>> /\ ln[1] = "[" /\ ln[Len(ln)] = "]"
    /\ \A j \in 1..(Len(ln) - 1) : ln[j] # "]"
IsKeyLine(ln) ==
    /\ ln # <<>> /\ ln[1] \notin {"[", "#", ";", " ", "\t", "\r"}
    /\ \E j \in 1..Len(ln) : ln[j] = "="

\* the offsets of f at which a line may be inserted: a start of line before
\* the first section, between a header line and a key line, or between two
\* key lines
InsertionPoints(f) ==
    { i \in 0..Len(f) :
        /\ i = 0 \/ f[i] = "\n"
        /\ \/ \A j \in 1..i : f[j] # "["
           \/ /\ i >= 1
              /\ IsHeaderLine(LineUpTo(f, i)) \/ IsKeyLine(LineUpTo(f, i))
              /\ IsKeyLine(LineFrom(f, i)) }

Insertions(f) ==
    { SubSeq(f, 1, i) \o ln \o SubSeq(f, i + 1, Len(f)) :
        i \in InsertionPoints(f), ln \in InsertedLines }

\* C9: inserting whitespace-only lines or full-line comments before the first
\* section, between a header line and a key line or between two key lines
\* never changes the outcome of Open: same Document or same error.
C9_BlankLinesAndComments ==
    (pc = "returned" /\ fileOpen) =>
      \A g \in Insertions(file) :
        LET r == Parse(g) IN r.ends /\ r.conf = conf /\ r.err = err

\* C10: the file opened by Open is closed on every exit path: after Open has
\* returned the file is no longer held open.
C10_FileReleased == pc = "returned" => ~fileOpen

\* C11: when a read of the stream fails with an I/O error, Open returns
\* that error and no Document; a failed read is never taken for a clean end of
\* stream.  (The machine reaches stateEOF only after a read past the last
\* byte, which is the read that fails when ioErr holds.)
C11_ReadErrorSurfaces ==
    (pc = "returned" /\ fileOpen /\ ioErr /\ state = stateEOF) =>
      (conf.nil /\ ~err.nil)

\* C12: whenever the machine is in MID, KEY or VALUE the current section name
\* is a section of the Document under construction, and every key of the
\* Document lies in such a section.
C12_SectionIsOpen ==
    (pc = "loop" /\ state \in {stateMid, stateKey, stateValue}) =>
      /\ lex.bufferSection \in DOMAIN lex.data
      /\ \A sk \in DOMAIN eqAt : sk[1] \in DOMAIN lex.data

\* a value is being read in a section after a comment line that follows
\* the header
C12_Witness ==
    /\ pc = "loop" /\ state = stateValue
    /\ lex.bufferSection \in DOMAIN lex.data
    /\ \E i \in 3..lex.pos :
         /\ file[i] = "#" /\ file[i - 1] = "\n"
         /\ \E j \in 1..(i - 2) : file[j] = "]"

\* C13: when COMMENT reads the terminating newline the next state is START
\* iff no section header has been read so far, and MID otherwise, for every
\* section name, the empty one included.
C13_CommentReturns ==
    [][(pc = "loop" /\ state = stateComment /\ state' # stateComment
        /\ state' # stateEOF)
       => /\ state' \in {stateStart, stateMid}
          /\ state' = stateStart <=> DOMAIN lex.data = {}]_vars

\* C14: look() returns the character the next add() would return and leaves
\* the stream position where it was, wherever a handler calls it.
C14_LookKeepsPosition ==
    (pc = "loop" /\ state \in {stateMid, stateSection, stateKey, stateValue}) =>
      /\ look(file, lex.pos).pos = lex.pos
      /\ look(file, lex.pos).chr = add(file, Looked(file, lex)).chr

\* C15: get() delivers a carriage return immediately followed by a line feed
\* as one newline and consumes both bytes; any other carriage return is
\* delivered as itself and exactly one byte is consumed.
C15_LineEndings ==
    (pc = "loop" /\ state \notin {stateError, stateEOF}
     /\ lex.pos < Len(file) /\ file[lex.pos + 1] = "\r") =>
      LET g == get(file, lex.pos) IN
      IF lex.pos + 2 <= Len(file) /\ file[lex.pos + 2] = "\n"
      THEN g.chr = "\n" /\ g.pos = lex.pos + 2
      ELSE g.chr = "\r" /\ g.pos = lex.pos + 1

\* C16: the text after "broken section name: " or "broken key name: " is the
\* input consumed since the name began, up to the terminating newline or the
\* end of the stream, every input character once.
C16_ErrorToken ==
    (/\ pc = "returned" /\ fileOpen
     /\ \/ StartsWith(err.text, "broken section name: ")
        \/ StartsWith(err.text, "broken key name: ")) =>
      LET token == ExpectedValue(file, tokenAt) IN
      IF NextLF(file, tokenAt) <= Len(file)
      THEN Tail(err.text) \in {token, token \o <<"\n">>}
      ELSE Tail(err.text) = token

\* C17: the text after "key not in section: " is only the offending
\* character, whatever blank lines or comments came before it.
C17_OffendingCharOnly ==
    (pc = "returned" /\ StartsWith(err.text, "key not in section: ")) =>
      /\ Len(err.text) = 2
      /\ err.text[2] \notin {" ", "\t", "\n", "[", "#", ";"}

Contains(name, cs) == \E i \in 1..Len(name) : name[i] \in cs

\* C18 as stated: in a returned Document no section name and no key name
\* contains "]", "=" or a newline.
C18_NoDelimiterInNames ==
    ~conf.nil =>
      \A s \in DOMAIN conf.data :
        /\ ~Contains(s, {"]", "=", "\n"})
        /\ \A k \in DOMAIN conf.data[s] : ~Contains(k, {"]", "=", "\n"})

\* C18 as amended: in a returned Document no section name contains "]" or a
\* newline and no key name contains "=" or a newline.
C18_NoOwnDelimiterInNames ==
    ~conf.nil =>
      \A s \in DOMAIN conf.data :
        /\ ~Contains(s, {"]", "\n"})
        /\ \A k \in DOMAIN conf.data[s] : ~Contains(k, {"=", "\n"})

\* a Document with "=" in a section name and "]" in a key name of it
C18_Witness ==
    /\ pc = "returned" /\ ~conf.nil
    /\ \E s \in DOMAIN conf.data :
         /\ Contains(s, {"="})
         /\ \E k \in DOMAIN conf.data[s] : Contains(k, {"]"})

\* C19: the Document under construction only grows: a VALUE commit adds one
\* entry under the current section and key, an accepted header adds one empty
\* section, and nothing else changes.
C19_DocumentOnlyGrows ==
    [][pc = "loop" =>
        LET d == lex.data
            e == lex'.data
            commit == state = stateValue /\ state' = stateMid
            header == state = stateSection /\ state' = stateMid
        IN
        /\ commit =>
             /\ lex.bufferSection \in DOMAIN d
             /\ lex.bufferKey \notin DOMAIN d[lex.bufferSection]
             /\ DOMAIN e = DOMAIN d
             /\ DOMAIN e[lex.bufferSection] =
                    DOMAIN d[lex.bufferSection] \cup {lex.bufferKey}
             /\ e[lex.bufferSection][lex.bufferKey] = lex'.bufferValue
             /\ \A s \in DOMAIN d : \A k \in DOMAIN d[s] :
                    k \in DOMAIN e[s] /\ e[s][k] = d[s][k]
             /\ \A s \in DOMAIN d \ {lex.bufferSection} : e[s] = d[s]
        /\ header =>
             /\ lex'.bufferSection \notin DOMAIN d
             /\ DOMAIN e = DOMAIN d \cup {lex'.bufferSection}
             /\ DOMAIN e[lex'.bufferSection] = {}
             /\ \A s \in DOMAIN d : e[s] = d[s]
        /\ ~commit /\ ~header => e = d]_vars

\* a header has been accepted after an entry was stored in another section
C19_Witness ==
    /\ pc = "loop" /\ state = stateMid
    /\ DOMAIN lex.data[lex.bufferSection] = {}
    /\ \E s \in DOMAIN lex.data : DOMAIN lex.data[s] # {}

\* C20: a key is refused as duplicate only when it is already a key of the
\* open section; the same key in two sections is accepted and Read returns
\* each section's own value.
C20_KeysPerSection ==
    /\ [][(/\ pc = "loop" /\ state = stateKey
           /\ look(file, lex.pos).chr = "="
           /\ lex.buffer \notin DOMAIN lex.data[lex.bufferSection])
          => state' = stateValue]_vars
    /\ [](pc = "returned" /\ StartsWith(err.text, "duplicate key in section: ")
          => Tail(err.text) \in DOMAIN lex.data[lex.bufferSection])
    /\ [](lastRead.called /\ lastRead.err.nil
          => lastRead.value = lex.data[lastRead.section][lastRead.key])

\* Read has returned a section's value of a key that another section holds
\* with another value
C20_Witness ==
    /\ lastRead.called /\ lastRead.err.nil
    /\ \E s \in DOMAIN conf.data \ {lastRead.section} :
         /\ lastRead.key \in DOMAIN conf.data[s]
         /\ conf.data[s][lastRead.key] # lastRead.value

====
